---- MODULE Spec2Model ----
(***************************************************************************)
(* Model of movecell (src/lib.rs): MoveCell<T>, a single-slot container    *)
(* reached through shared references, and Borrow<'a, T>, the guard that    *)
(* takes the value out of a cell and swaps it back when dropped.           *)
(*                                                                         *)
(* T is modelled as an Option-like type: the value 0 is T::default()       *)
(* (None), the values 1..MaxVal are Some(1)..Some(MaxVal).  Every value of *)
(* T lives in an object (a piece of storage with an identity), so that     *)
(* moves, bitwise copies (ptr::read), mem::forget and destructors can be   *)
(* told apart.                                                             *)
(***************************************************************************)
EXTENDS Integers, FiniteSets, Sequences, TLC

\* ---------------------------------------------------------------- bounds
NumCells == 2
MaxGuards == 2
MaxObj == 4
MaxVal == 1

Cells == 1..NumCells
GuardIds == 1..MaxGuards
ObjIds == 1..MaxObj
Values == 0..MaxVal
NoObj == 0

\* <T as Default>::default() for T = Option<_>: None
DefaultT == 0

VARIABLES
    cst,        \* cst[c]: "none" (no such cell: not constructed, or consumed), "alive"
    slot,       \* slot[c]: the object in the cell's UnsafeCell<T>, NoObj if the cell does not exist
    gst,        \* gst[g]: "unused" (no such guard: not created, dropped or consumed), "live"
    gcell,      \* gcell[g]: Borrow::_cell, 0 while unused
    gval,       \* gval[g]: the object in Borrow::_value, NoObj while unused
    order,      \* the live guards, in order of creation
    ost,        \* ost[o]: "free" (no value: never built, or destroyed), "live",
                \*         "twice" (a destructor ran on storage that held no value)
    val,        \* val[o]: the T value stored in object o
    owned,      \* objects the calling code owns (values returned to it)
    lastReplace,\* history: per cell, the value stored by new or by the program's most
                \*          recent replace / take
    lastWrite,  \* history: per cell, the value most recently written to the slot
    nest,       \* history: per cell, the guards created on it since it last had none
    last        \* history: the operation executed by the last step

vars == <<cst, slot, gst, gcell, gval, order, ost, val, owned,
          lastReplace, lastWrite, nest, last>>

\* The memory the library's functions work on, as one record.
Heap ==
    [cst |-> cst, slot |-> slot, gst |-> gst, gcell |-> gcell, gval |-> gval,
     order |-> order, ost |-> ost, val |-> val, owned |-> owned]

Min(S) == CHOOSE x \in S : \A y \in S : x <= y
Max(S) == CHOOSE x \in S : \A y \in S : x >= y

\* ------------------------------------------------------- objects of type T
FreeObjs(s) == {o \in ObjIds : s.ost[o] = "free"}

\* A T value v is constructed in fresh storage; the constructing code owns it
\* until it moves it somewhere.
alloc(s, v) ==
    LET o == Min(FreeObjs(s))
    IN  [st |-> [s EXCEPT !.ost[o] = "live", !.val[o] = v], obj |-> o]

\* T::default()
T_default(s) == alloc(s, DefaultT)

\* The destructor of the T in object o runs (drop glue).
destroy(s, o) ==
    [s EXCEPT !.ost[o] = IF s.ost[o] = "live" THEN "free" ELSE "twice",
              !.val[o] = DefaultT,
              !.owned = s.owned \ {o}]

\* A value is handed to the calling code.
give(s, o) == [s EXCEPT !.owned = s.owned \cup {o}]

\* The calling code's statement ends: the values it was handed and did not
\* keep are destroyed.
RECURSIVE end_statement(_)
end_statement(s) ==
    IF s.owned = {} THEN s
    ELSE end_statement(destroy(s, Min(s.owned)))

\* ------------------------------------------------------------- MoveCell<T>
\* MoveCell::new: MoveCell(UnsafeCell::new(value)); value moves into the cell.
new(s, c, o) ==
    [s EXCEPT !.cst[c] = "alive", !.slot[c] = o, !.owned = s.owned \ {o}]

\* MoveCell::into_inner(self): the cell is consumed, its value moves out.
into_inner(s, c) ==
    [st |-> [s EXCEPT !.cst[c] = "none", !.slot[c] = NoObj],
     ret |-> s.slot[c]]

\* Faulty variant: mem::replace that hands back the value it was given.
mem_replace_ret_new(s, c, o) ==
    [st |-> [s EXCEPT !.slot[c] = o, !.owned = s.owned \ {o}],
     ret |-> o]

\* mem::replace(dest, src): moves src into dest, returns the old dest.
mem_replace(s, c, o) ==
    [st |-> [s EXCEPT !.slot[c] = o, !.owned = s.owned \ {o}],
     ret |-> s.slot[c]]

\* MoveCell::replace(&self, new_value)
replace(s, c, o) == mem_replace(s, c, o)

\* Faulty variant: take that reads the value out and leaves it in the slot.
take_leaves_value(s, c) ==
    [st |-> s, ret |-> s.slot[c]]

\* MoveCell::take(&self): self.replace(T::default())
take(s, c) ==
    LET d == T_default(s)
    IN  replace(d.st, c, d.obj)

\* MoveCell::borrow(&self): Borrow { _cell: self, _value: self.take() }
borrow(s, c) ==
    LET t == take(s, c)
    IN  [st |-> t.st, guard |-> [cell |-> c, value |-> t.ret]]

\* ------------------------------------------------------------ Borrow<'a, T>
\* ptr::read(&self._value): a bitwise copy, the source stays as it is.
ptr_read(s, guard) == guard.value

\* Faulty variant: a swap that leaves the cell's side as it was.
mem_swap_one_sided(s, guard) ==
    [st |-> s,
     guard |-> [guard EXCEPT !.value = s.slot[guard.cell]]]

\* mem::swap(&mut self._value, &mut *cell.get())
mem_swap(s, guard) ==
    [st |-> [s EXCEPT !.slot[guard.cell] = guard.value],
     guard |-> [guard EXCEPT !.value = s.slot[guard.cell]]]

\* Faulty variant: no Drop impl: only the drop glue of the field _value runs.
drop_no_restore(s, guard) == destroy(s, guard.value)

\* Faulty variant: a drop that restores only over the placeholder, and
\* otherwise leaves the cell as it is and destroys the guard's value.
drop_if_placeholder(s, guard) ==
    IF s.val[s.slot[guard.cell]] = DefaultT
    THEN destroy(mem_swap(s, guard).st, mem_swap(s, guard).guard.value)
    ELSE destroy(s, guard.value)

\* <Borrow as Drop>::drop followed by the drop glue of the field _value.
drop(s, guard) ==
    LET w == mem_swap(s, guard)
    IN  destroy(w.st, w.guard.value)

\* Faulty variant: a forget that runs the destructor of the guard's value.
mem_forget_runs_destructor(s, guard) == destroy(s, guard.value)

\* mem::forget(self): the guard goes away and its destructor does not run.
mem_forget(s, guard) == s

\* Faulty variant: into_inner without mem::forget: the guard's destructor runs when
\* self goes out of scope.
Borrow_into_inner_no_forget(s, guard) ==
    LET value == ptr_read(s, guard)
    IN  [st |-> drop(s, guard), ret |-> value]

\* Borrow::into_inner(self): ptr::read the value, forget the guard.
Borrow_into_inner(s, guard) ==
    LET value == ptr_read(s, guard)
    IN  [st |-> mem_forget(s, guard), ret |-> value]

\* <Borrow as Deref>::deref: &self._value
deref(s, guard) == s.val[guard.value]

\* Faulty variant: a write through the guard that reaches the cell's slot too.
deref_mut_writes_through(s, guard, v) ==
    [s EXCEPT !.val[guard.value] = v, !.val[s.slot[guard.cell]] = v]

\* A write through <Borrow as DerefMut>::deref_mut: *guard = v, in place.
deref_mut(s, guard, v) == [s EXCEPT !.val[guard.value] = v]

\* Faulty variant: eq whose temporaries are dropped in order of creation.
eq_drops_in_creation_order(s, a, b) ==
    LET b1 == borrow(s, a)
        b2 == borrow(b1.st, b)
        r  == deref(b2.st, b1.guard) = deref(b2.st, b2.guard)
        d1 == drop(b2.st, b1.guard)
        d2 == drop(d1, b2.guard)
    IN  [st |-> d2, ret |-> r]

\* <MoveCell as PartialEq>::eq: *self.borrow() == *other.borrow(); the two
\* temporaries are dropped in reverse order of creation.
eq(s, a, b) ==
    LET b1 == borrow(s, a)
        b2 == borrow(b1.st, b)
        r  == deref(b2.st, b1.guard) = deref(b2.st, b2.guard)
        d2 == drop(b2.st, b2.guard)
        d1 == drop(d2, b1.guard)
    IN  [st |-> d1, ret |-> r]

\* Faulty variant: ne that compares what the two borrows left in the slots.
ne_compares_slots(s, a, b) ==
    LET b1 == borrow(s, a)
        b2 == borrow(b1.st, b)
        r  == b2.st.val[b2.st.slot[a]] # b2.st.val[b2.st.slot[b]]
        d2 == drop(b2.st, b2.guard)
        d1 == drop(d2, b1.guard)
    IN  [st |-> d1, ret |-> r]

\* <MoveCell as PartialEq>::ne: *self.borrow() != *other.borrow()
ne(s, a, b) ==
    LET b1 == borrow(s, a)
        b2 == borrow(b1.st, b)
        r  == deref(b2.st, b1.guard) # deref(b2.st, b2.guard)
        d2 == drop(b2.st, b2.guard)
        d1 == drop(d2, b1.guard)
    IN  [st |-> d1, ret |-> r]

\* <T as Clone>::clone(&value): an equal value in storage of its own.
T_clone(s, o) == alloc(s, s.val[o])

\* Faulty variant: clone that copies what the borrow left in the slot.
clone_of_placeholder(s, c, d) ==
    LET b == borrow(s, c)
        v == T_clone(b.st, b.st.slot[c])
        n == new(v.st, d, v.obj)
    IN  drop(n, b.guard)

\* <MoveCell as Clone>::clone: MoveCell::new(self.borrow().clone()); the
\* temporary guard is dropped when the expression has been evaluated.  d is
\* the place the calling code puts the new cell in.
clone(s, c, d) ==
    LET b == borrow(s, c)
        v == T_clone(b.st, b.guard.value)
        n == new(v.st, d, v.obj)
    IN  drop(n, b.guard)

\* <T as Debug>::fmt for T = Option<_>: None, Some(1), Some(2), ...
T_fmt(v) == IF v = DefaultT THEN "None" ELSE "Some(" \o ToString(v) \o ")"

\* Faulty variant: fmt that formats what the borrow left in the slot.
fmt_of_placeholder(s, c) ==
    LET b == borrow(s, c)
        out == "MoveCell(" \o T_fmt(b.st.val[b.st.slot[c]]) \o ")"
    IN  [st |-> drop(b.st, b.guard), out |-> out]

\* <MoveCell as Debug>::fmt: write!(f, "MoveCell({:?})", *self.borrow())
fmt(s, c) ==
    LET b == borrow(s, c)
        out == "MoveCell(" \o T_fmt(deref(b.st, b.guard)) \o ")"
    IN  [st |-> drop(b.st, b.guard), out |-> out]

\* <Borrow as Debug>::fmt: write!(f, "movecell::Borrow({:?})", self._value)
Borrow_fmt(s, guard) == "movecell::Borrow(" \o T_fmt(s.val[guard.value]) \o ")"

\* ------------------------------------------------------------------ state
NoLast ==
    [op |-> "init", cell |-> 0, cell2 |-> 0, guard |-> 0, arg |-> 0,
     pre |-> 0, pre2 |-> 0, ret |-> 0, flag |-> FALSE, out |-> "",
     nested |-> FALSE]

\* nest[c].st: "off" (no guard on c is live, or the guards created since the
\* first borrow were not dropped last created first, or a replace, a take or a
\* guard's into_inner came in between), "single" (one guard created since the
\* first borrow), "nested" (several); "single_w" / "nested_w": the same, and
\* the value of the first guard was changed through deref_mut.
\* nest[c].orig: the value c held before the first borrow.
\* "untracked": this history is not recorded (it is recorded in NestSpec).
NestOff == [st |-> "off", orig |-> 0]
Untracked == [st |-> "untracked", orig |-> 0]

Init ==
    /\ cst = [c \in Cells |-> "none"]
    /\ slot = [c \in Cells |-> NoObj]
    /\ gst = [g \in GuardIds |-> "unused"]
    /\ gcell = [g \in GuardIds |-> 0]
    /\ gval = [g \in GuardIds |-> NoObj]
    /\ order = <<>>
    /\ ost = [o \in ObjIds |-> "free"]
    /\ val = [o \in ObjIds |-> DefaultT]
    /\ owned = {}
    /\ lastReplace = [c \in Cells |-> 0]
    /\ lastWrite = [c \in Cells |-> 0]
    /\ nest = [c \in Cells |-> Untracked]
    /\ last = NoLast

\* Objects have no address in the model: they are numbered by where they are
\* referenced from (cells first, then guards, then the rest), so that two
\* memories that differ only in the numbering of the objects are one state.
refsOf(s) ==
    [i \in 1..(NumCells + MaxGuards + MaxObj) |->
        IF i <= NumCells THEN s.slot[i]
        ELSE IF i <= NumCells + MaxGuards THEN s.gval[i - NumCells]
        ELSE IF s.ost[i - NumCells - MaxGuards] # "free"
             THEN i - NumCells - MaxGuards
             ELSE NoObj]

firstRef(refs) ==
    [o \in ObjIds |->
        IF \E i \in DOMAIN refs : refs[i] = o
        THEN Min({i \in DOMAIN refs : refs[i] = o})
        ELSE Len(refs) + o]

rankOf(first) ==
    [o \in ObjIds |-> Cardinality({p \in ObjIds : first[p] < first[o]}) + 1]

backOf(rank) ==
    [n \in ObjIds |-> CHOOSE o \in ObjIds : rank[o] = n]

renumber(s, rank, back) ==
    [s EXCEPT !.slot = [c \in Cells |->
                          IF s.slot[c] = NoObj THEN NoObj ELSE rank[s.slot[c]]],
              !.gval = [g \in GuardIds |->
                          IF s.gval[g] = NoObj THEN NoObj ELSE rank[s.gval[g]]],
              !.owned = {rank[o] : o \in s.owned},
              !.ost = [n \in ObjIds |-> s.ost[back[n]]],
              !.val = [n \in ObjIds |-> s.val[back[n]]]]

canon(s) ==
    LET ranks == {rankOf(first) : first \in {firstRef(refs) : refs \in {refsOf(s)}}}
        backs == {<<rank, backOf(rank)>> : rank \in ranks}
    IN  CHOOSE n \in {renumber(s, rb[1], rb[2]) : rb \in backs} : TRUE

\* The library's memory after a step.
Commit(t) ==
    \E s \in {t} : \E n \in {canon(s)} :
        /\ cst' = n.cst
        /\ slot' = n.slot
        /\ gst' = n.gst
        /\ gcell' = n.gcell
        /\ gval' = n.gval
        /\ order' = n.order
        /\ ost' = n.ost
        /\ val' = n.val
        /\ owned' = n.owned

\* The memory when the calling code starts its next statement.
Cur == end_statement(Heap)

LiveGuards(c) == {g \in GuardIds : gst[g] = "live" /\ gcell[g] = c}
AllLive == {g \in GuardIds : gst[g] = "live"}
GuardOf(g) == [cell |-> gcell[g], value |-> gval[g]]
HasFree(n) == Cardinality(FreeObjs(Cur)) >= n

\* The calling code stores the guard returned by borrow in its variable g.
bind(s, g, guard) ==
    [s EXCEPT !.gst[g] = "live", !.gcell[g] = guard.cell, !.gval[g] = guard.value,
              !.order = Append(s.order, g)]

\* The guards in G are gone (dropped or consumed).
unbind(s, G) ==
    [s EXCEPT !.gst = [g \in GuardIds |-> IF g \in G THEN "unused" ELSE s.gst[g]],
              !.gcell = [g \in GuardIds |-> IF g \in G THEN 0 ELSE s.gcell[g]],
              !.gval = [g \in GuardIds |-> IF g \in G THEN NoObj ELSE s.gval[g]],
              !.order = SelectSeq(s.order, LAMBDA h : h \notin G)]

\* The oldest live guard of cell c.
Oldest(c) == order[Min({i \in 1..Len(order) : gcell[order[i]] = c})]

\* The youngest live guard of cell c.
Youngest(c) == order[Max({i \in 1..Len(order) : gcell[order[i]] = c})]

\* The history nest after the operation e.
nest_step(e) ==
    [c \in Cells |->
        LET n == nest[c]
        IN  CASE n.st = "untracked" -> n
              [] e.op = "unwind" -> NestOff
              [] e.cell # c -> n
              [] e.op = "borrow" ->
                    IF LiveGuards(c) = {}
                    THEN [st |-> "single", orig |-> val[slot[c]]]
                    ELSE [n EXCEPT !.st = CASE n.st = "single" -> "nested"
                                            [] n.st = "single_w" -> "nested_w"
                                            [] OTHER -> n.st]
              [] e.op \in {"replace", "take", "guard_into_inner"} -> NestOff
              [] e.op = "drop" ->
                    IF LiveGuards(c) = {e.guard} \/ e.guard # Youngest(c)
                    THEN NestOff
                    ELSE n
              [] e.op = "deref_mut" ->
                    IF e.guard = Oldest(c) /\ e.arg # e.pre
                    THEN [n EXCEPT !.st = CASE n.st = "single" -> "single_w"
                                            [] n.st = "nested" -> "nested_w"
                                            [] OTHER -> n.st]
                    ELSE n
              [] OTHER -> n]

\* let c = MoveCell::new(v)
New(c, v) ==
    /\ cst[c] = "none"
    /\ HasFree(1)
    /\ LET a == alloc(Cur, v)
       IN  Commit(new(a.st, c, a.obj))
    /\ lastReplace' = [lastReplace EXCEPT ![c] = v]
    /\ lastWrite' = [lastWrite EXCEPT ![c] = v]
    /\ last' = [NoLast EXCEPT !.op = "new", !.cell = c, !.arg = v]
    /\ nest' = nest_step(last')

\* c.into_inner(): needs the cell by value, so no guard borrows it.
CellIntoInner(c) ==
    /\ cst[c] = "alive"
    /\ LiveGuards(c) = {}
    /\ LET r == into_inner(Cur, c)
       IN  /\ Commit(give(r.st, r.ret))
           /\ last' = [NoLast EXCEPT !.op = "cell_into_inner", !.cell = c,
                                     !.arg = lastReplace[c], !.pre2 = lastWrite[c],
                                     !.pre = val[slot[c]],
                                     !.ret = r.st.val[r.ret]]
    /\ lastReplace' = [lastReplace EXCEPT ![c] = 0]
    /\ lastWrite' = [lastWrite EXCEPT ![c] = 0]
    /\ nest' = nest_step(last')

\* c.replace(v)
Replace(c, v) ==
    /\ cst[c] = "alive"
    /\ HasFree(1)
    /\ LET a == alloc(Cur, v)
           r == replace(a.st, c, a.obj)
       IN  /\ Commit(give(r.st, r.ret))
           /\ last' = [NoLast EXCEPT !.op = "replace", !.cell = c, !.arg = v,
                                     !.pre = val[slot[c]],
                                     !.ret = r.st.val[r.ret]]
    /\ lastReplace' = [lastReplace EXCEPT ![c] = v]
    /\ lastWrite' = [lastWrite EXCEPT ![c] = v]
    /\ nest' = nest_step(last')

\* c.take()
Take(c) ==
    /\ cst[c] = "alive"
    /\ HasFree(1)
    /\ LET r == take(Cur, c)
       IN  /\ Commit(give(r.st, r.ret))
           /\ last' = [NoLast EXCEPT !.op = "take", !.cell = c,
                                     !.pre = val[slot[c]],
                                     !.ret = r.st.val[r.ret]]
    /\ lastReplace' = [lastReplace EXCEPT ![c] = DefaultT]
    /\ lastWrite' = [lastWrite EXCEPT ![c] = DefaultT]
    /\ nest' = nest_step(last')

\* let g = c.borrow()
BorrowOp(c) ==
    /\ cst[c] = "alive"
    /\ HasFree(1)
    /\ \E g \in GuardIds :
        /\ gst[g] = "unused"
        /\ \A h \in GuardIds : h < g => gst[h] # "unused"
        /\ LET r == borrow(Cur, c)
           IN  /\ Commit(bind(r.st, g, r.guard))
               /\ last' = [NoLast EXCEPT !.op = "borrow", !.cell = c, !.guard = g,
                                         !.pre = val[slot[c]],
                                         !.ret = r.st.val[r.guard.value]]
    /\ lastWrite' = [lastWrite EXCEPT ![c] = DefaultT]
    /\ UNCHANGED lastReplace
    /\ nest' = nest_step(last')

\* let v = &*g  (a read through Deref)
DerefRead(g) ==
    /\ gst[g] = "live"
    /\ Commit(Cur)
    /\ last' = [NoLast EXCEPT !.op = "deref", !.cell = gcell[g], !.guard = g,
                              !.pre = val[gval[g]],
                              !.pre2 = val[slot[gcell[g]]],
                              !.ret = deref(Cur, GuardOf(g))]
    /\ UNCHANGED <<lastReplace, lastWrite>>
    /\ nest' = nest_step(last')

\* *g = v  (a write through DerefMut)
DerefMutWrite(g, v) ==
    /\ gst[g] = "live"
    /\ Commit(deref_mut(Cur, GuardOf(g), v))
    /\ last' = [NoLast EXCEPT !.op = "deref_mut", !.cell = gcell[g], !.guard = g,
                              !.arg = v, !.pre = val[gval[g]],
                              !.pre2 = val[slot[gcell[g]]]]
    /\ UNCHANGED <<lastReplace, lastWrite>>
    /\ nest' = nest_step(last')

\* The guard g goes out of scope (or drop(g)).
DropGuard(g) ==
    /\ gst[g] = "live"
    /\ last' = [NoLast EXCEPT !.op = "drop", !.cell = gcell[g], !.guard = g,
                              !.pre = val[gval[g]],
                              !.pre2 = val[slot[gcell[g]]],
                              !.nested = /\ nest[gcell[g]].st = "nested"
                                         /\ LiveGuards(gcell[g]) = {g}]
    /\ lastWrite' = [lastWrite EXCEPT ![gcell[g]] = val[gval[g]]]
    /\ UNCHANGED lastReplace
    /\ \E s \in {Cur} : \E d \in {drop(s, GuardOf(g))} : Commit(unbind(d, {g}))
    /\ nest' = nest_step(last')

\* let v = g.into_inner()
GuardIntoInner(g) ==
    /\ gst[g] = "live"
    /\ LET r == Borrow_into_inner(Cur, GuardOf(g))
       IN  /\ Commit(unbind(give(r.st, r.ret), {g}))
           /\ last' = [NoLast EXCEPT !.op = "guard_into_inner", !.cell = gcell[g],
                                     !.guard = g,
                                     !.pre = val[gval[g]],
                                     !.pre2 = val[slot[gcell[g]]],
                                     !.ret = r.st.val[r.ret]]
    /\ UNCHANGED <<lastReplace, lastWrite>>
    /\ nest' = nest_step(last')

\* Faulty variant: unwinding that drops the guards in q first created first.
RECURSIVE unwind_oldest_first(_, _, _)
unwind_oldest_first(s, q, guards) ==
    IF q = <<>> THEN s
    ELSE unwind_oldest_first(drop(s, guards[q[1]]), SubSeq(q, 2, Len(q)), guards)

\* Unwinding drops the guards in q, last created first.
RECURSIVE unwind(_, _, _)
unwind(s, q, guards) ==
    IF q = <<>> THEN s
    ELSE unwind(drop(s, guards[q[Len(q)]]), SubSeq(q, 1, Len(q) - 1), guards)

\* The code holding the guards panics and the stack unwinds.
Unwind ==
    /\ AllLive # {}
    /\ Commit(unbind(unwind(Cur, order, [g \in GuardIds |-> GuardOf(g)]), AllLive))
    /\ lastWrite' = [c \in Cells |->
                       IF LiveGuards(c) = {} THEN lastWrite[c]
                       ELSE val[gval[Oldest(c)]]]
    /\ last' = [NoLast EXCEPT !.op = "unwind", !.guard = order[1],
                              !.cell = gcell[order[1]],
                              !.pre = val[gval[order[1]]]]
    /\ UNCHANGED lastReplace
    /\ nest' = nest_step(last')

\* a == b
Eq(a, b) ==
    /\ cst[a] = "alive"
    /\ cst[b] = "alive"
    /\ HasFree(2)
    /\ LET r == eq(Cur, a, b)
       IN  /\ Commit(r.st)
           /\ last' = [NoLast EXCEPT !.op = "eq", !.cell = a, !.cell2 = b,
                                     !.pre = val[slot[a]], !.pre2 = val[slot[b]],
                                     !.flag = r.ret]
    /\ lastWrite' = [c \in Cells |->
                       IF c = a THEN val[slot[a]]
                       ELSE IF c = b THEN val[slot[b]]
                       ELSE lastWrite[c]]
    /\ UNCHANGED lastReplace
    /\ nest' = nest_step(last')

\* a != b
Ne(a, b) ==
    /\ cst[a] = "alive"
    /\ cst[b] = "alive"
    /\ HasFree(2)
    /\ LET r == ne(Cur, a, b)
       IN  /\ Commit(r.st)
           /\ last' = [NoLast EXCEPT !.op = "ne", !.cell = a, !.cell2 = b,
                                     !.pre = val[slot[a]], !.pre2 = val[slot[b]],
                                     !.flag = r.ret]
    /\ lastWrite' = [c \in Cells |->
                       IF c = a THEN val[slot[a]]
                       ELSE IF c = b THEN val[slot[b]]
                       ELSE lastWrite[c]]
    /\ UNCHANGED lastReplace
    /\ nest' = nest_step(last')

\* let d = c.clone()
Clone(c, d) ==
    /\ cst[c] = "alive"
    /\ cst[d] = "none"
    /\ HasFree(2)
    /\ Commit(clone(Cur, c, d))
    /\ last' = [NoLast EXCEPT !.op = "clone", !.cell = c, !.cell2 = d,
                              !.pre = val[slot[c]]]
    /\ lastReplace' = [lastReplace EXCEPT ![d] = val[slot[c]]]
    /\ lastWrite' = [lastWrite EXCEPT ![c] = val[slot[c]], ![d] = val[slot[c]]]
    /\ nest' = nest_step(last')

\* format!("{:?}", c)
DebugCell(c) ==
    /\ cst[c] = "alive"
    /\ HasFree(1)
    /\ LET r == fmt(Cur, c)
       IN  /\ Commit(r.st)
           /\ last' = [NoLast EXCEPT !.op = "fmt", !.cell = c,
                                     !.pre = val[slot[c]], !.out = r.out]
    /\ lastWrite' = [lastWrite EXCEPT ![c] = val[slot[c]]]
    /\ UNCHANGED lastReplace
    /\ nest' = nest_step(last')

\* format!("{:?}", g)
DebugGuard(g) ==
    /\ gst[g] = "live"
    /\ Commit(Cur)
    /\ last' = [NoLast EXCEPT !.op = "guard_fmt", !.cell = gcell[g], !.guard = g,
                              !.pre = val[gval[g]],
                              !.pre2 = val[slot[gcell[g]]],
                              !.out = Borrow_fmt(Cur, GuardOf(g))]
    /\ UNCHANGED <<lastReplace, lastWrite>>
    /\ nest' = nest_step(last')

Next ==
    \/ \E c \in Cells, v \in Values : New(c, v)
    \/ \E c \in Cells : CellIntoInner(c)
    \/ \E c \in Cells, v \in Values : Replace(c, v)
    \/ \E c \in Cells : Take(c)
    \/ \E c \in Cells : BorrowOp(c)
    \/ \E g \in GuardIds : DerefRead(g)
    \/ \E g \in GuardIds, v \in Values : DerefMutWrite(g, v)
    \/ \E g \in GuardIds : DropGuard(g)
    \/ \E g \in GuardIds : GuardIntoInner(g)
    \/ Unwind
    \/ \E a \in Cells, b \in Cells : Eq(a, b)
    \/ \E a \in Cells, b \in Cells : Ne(a, b)
    \/ \E c \in Cells, d \in Cells : Clone(c, d)
    \/ \E c \in Cells : DebugCell(c)
    \/ \E g \in GuardIds : DebugGuard(g)

Spec == Init /\ [][Next]_vars

\* A guard is a scoped value: its scope ends, normally or by unwinding, and
\* its destructor then runs.
LiveSpec == Spec /\ \A g \in GuardIds : WF_vars(DropGuard(g))

\* The same program, with the history nest recorded.
NestInit ==
    /\ cst = [c \in Cells |-> "none"]
    /\ slot = [c \in Cells |-> NoObj]
    /\ gst = [g \in GuardIds |-> "unused"]
    /\ gcell = [g \in GuardIds |-> 0]
    /\ gval = [g \in GuardIds |-> NoObj]
    /\ order = <<>>
    /\ ost = [o \in ObjIds |-> "free"]
    /\ val = [o \in ObjIds |-> DefaultT]
    /\ owned = {}
    /\ lastReplace = [c \in Cells |-> 0]
    /\ lastWrite = [c \in Cells |-> 0]
    /\ nest = [c \in Cells |-> NestOff]
    /\ last = NoLast

NestSpec == NestInit /\ [][Next]_vars

\* The calling code keeps to the precondition: it starts no operation on a
\* cell while a guard on that cell is live.
SeqNext ==
    \/ \E c \in Cells, v \in Values : New(c, v)
    \/ \E c \in Cells : CellIntoInner(c)
    \/ \E c \in Cells, v \in Values : LiveGuards(c) = {} /\ Replace(c, v)
    \/ \E c \in Cells : LiveGuards(c) = {} /\ Take(c)
    \/ \E c \in Cells : LiveGuards(c) = {} /\ BorrowOp(c)
    \/ \E g \in GuardIds : DerefRead(g)
    \/ \E g \in GuardIds, v \in Values : DerefMutWrite(g, v)
    \/ \E g \in GuardIds : DropGuard(g)
    \/ \E g \in GuardIds : GuardIntoInner(g)
    \/ Unwind
    \/ \E a \in Cells, b \in Cells :
          LiveGuards(a) = {} /\ LiveGuards(b) = {} /\ Eq(a, b)
    \/ \E a \in Cells, b \in Cells :
          LiveGuards(a) = {} /\ LiveGuards(b) = {} /\ Ne(a, b)
    \/ \E c \in Cells, d \in Cells : LiveGuards(c) = {} /\ Clone(c, d)
    \/ \E c \in Cells : LiveGuards(c) = {} /\ DebugCell(c)
    \/ \E g \in GuardIds : DebugGuard(g)

SeqSpec == Init /\ [][SeqNext]_vars

\* ----------------------------------------------------------------- claims

\* C1: replace(b) on a cell holding a returns a and leaves b in the cell; the
\* next replace / take / into_inner on that cell observes b.
C1_ReplaceReturnsOld ==
    /\ [](last.op = "replace" =>
            /\ last.ret = last.pre
            /\ val[slot[last.cell]] = last.arg)
    /\ [][(/\ last.op = "replace"
           /\ last'.op \in {"replace", "take", "cell_into_inner"}
           /\ last'.cell = last.cell)
          => last'.ret = last.arg]_vars

C1_Witness ==
    /\ last.op = "replace"
    /\ last.pre # DefaultT
    /\ last.arg # last.pre
    /\ last.ret = last.pre
    /\ val[slot[last.cell]] = last.arg

\* C2: dropping a guard leaves its cell holding the value the guard wrapped at
\* the moment of the drop: the pre-borrow value when the drop directly follows
\* the borrow, the written value when it follows a write through deref_mut.
C2_DropRestores ==
    /\ [](last.op = "drop" => val[slot[last.cell]] = last.pre)
    /\ [][(/\ last.op = "borrow"
           /\ last'.op = "drop"
           /\ last'.guard = last.guard)
          => val'[slot'[last.cell]] = last.pre]_vars
    /\ [][(/\ last.op = "deref_mut"
           /\ last'.op = "drop"
           /\ last'.guard = last.guard)
          => val'[slot'[last.cell]] = last.arg]_vars

C2_Witness ==
    /\ last.op = "drop"
    /\ last.pre # DefaultT
    /\ last.pre2 = DefaultT
    /\ val[slot[last.cell]] = last.pre

\* C3: at most one guard is live per cell.
C3_OneLiveGuard ==
    \A c \in Cells : Cardinality(LiveGuards(c)) <= 1

\* C4: while a guard is live, the slot of its cell holds T's default.
C4_PlaceholderWhileLive ==
    \A g \in GuardIds : gst[g] = "live" => val[slot[gcell[g]]] = DefaultT

\* C5: a == b returns true exactly when the value held by a equals the value
\* held by b just before the call, also when a and b are the same cell.
C5_EqIffValuesEqual ==
    last.op = "eq" => (last.flag <=> last.pre = last.pre2)

\* C6: into_inner on a guard returns the guard's wrapped value and afterwards
\* the cell holds T's default.
C6_IntoInnerLeavesDefault ==
    last.op = "guard_into_inner" =>
        /\ last.ret = last.pre
        /\ val[slot[last.cell]] = DefaultT

\* The guards of cell c that a step ends by running their destructor.
Torn(c) ==
    {g \in GuardIds : /\ gst[g] = "live"
                      /\ gcell[g] = c
                      /\ gst'[g] # "live"
                      /\ last'.op # "guard_into_inner"}

\* C7: every live guard ends, and unless it ends by into_inner its value is
\* written back to its cell, on normal scope exit and on unwinding alike (when
\* several guards of one cell end together, the oldest is written last).
C7_TeardownRuns ==
    /\ \A g \in GuardIds : (gst[g] = "live") ~> (gst[g] # "live")
    /\ [][\A c \in Cells :
            Torn(c) # {} =>
                \E g \in Torn(c) :
                    /\ \A h \in Torn(c) :
                         \E i, j \in 1..Len(order) :
                            order[i] = g /\ order[j] = h /\ i <= j
                    /\ val'[slot'[c]] = val[gval[g]]]_vars

C7_Witness ==
    /\ last.op = "unwind"
    /\ last.pre # DefaultT
    /\ val[slot[last.cell]] = last.pre

\* What c.replace(v) makes of the memory, and what it returns.
replace_outcome(c, v) ==
    LET a == alloc(Cur, v)
        r == replace(a.st, c, a.obj)
    IN  [heap |-> canon(give(r.st, r.ret)), ret |-> r.st.val[r.ret]]

\* C8: take() returns the value the cell held and leaves T's default; a second
\* immediate take() returns the default; take() does what replace(default) does.
C8_TakeLeavesDefault ==
    /\ [](last.op = "take" =>
            /\ last.ret = last.pre
            /\ val[slot[last.cell]] = DefaultT)
    /\ [][(/\ last.op = "take"
           /\ last'.op = "take"
           /\ last'.cell = last.cell)
          => last'.ret = DefaultT]_vars
    /\ [][last'.op = "take" =>
            /\ Heap' = replace_outcome(last'.cell, DefaultT).heap
            /\ last'.ret = replace_outcome(last'.cell, DefaultT).ret]_vars

C8_Witness ==
    /\ last.op = "take"
    /\ last.pre # DefaultT
    /\ last.ret = last.pre
    /\ val[slot[last.cell]] = DefaultT

\* C9 (as stated): into_inner on a cell returns the value given to new, or the
\* value stored by the most recent replace / take.
C9_ReturnsLastReplaced ==
    last.op = "cell_into_inner" => last.ret = last.arg

\* C9 (amended): new(a).into_inner() returns a; into_inner on a cell returns
\* the value most recently written to its slot, by new, replace, take, borrow
\* (the default) or the drop of a guard (the value the guard wrapped).
C9_ReturnsLastWritten ==
    /\ [](last.op = "cell_into_inner" => last.ret = last.pre2)
    /\ [][(/\ last.op = "new"
           /\ last'.op = "cell_into_inner"
           /\ last'.cell = last.cell)
          => last'.ret = last.arg]_vars

C9_Witness ==
    /\ last.op = "cell_into_inner"
    /\ last.ret # last.arg
    /\ last.ret = last.pre2
    /\ last.ret # DefaultT

\* C10: the slot of every cell holds exactly one valid value of T: a live
\* object that no guard, no other cell and not the calling code holds too.
C10_SlotValid ==
    \A c \in Cells :
        cst[c] = "alive" =>
            /\ slot[c] \in ObjIds
            /\ ost[slot[c]] = "live"
            /\ slot[c] \notin owned
            /\ \A g \in GuardIds : gst[g] = "live" => gval[g] # slot[c]
            /\ \A d \in Cells \ {c} : slot[d] # slot[c]

C10_Witness ==
    /\ last.op = "guard_into_inner"
    /\ LiveGuards(last.cell) # {}
    /\ last.ret # DefaultT
    /\ cst[last.cell] = "alive"

\* C11: c.clone() is a new cell holding a value equal to the one c holds, c
\* still holds its value afterwards, the clone and c compare equal, and a
\* later replace on either cell leaves the other as it was.
C11_CloneMatches ==
    /\ [](last.op = "clone" =>
            /\ cst[last.cell2] = "alive"
            /\ val[slot[last.cell2]] = last.pre
            /\ val[slot[last.cell]] = last.pre
            /\ slot[last.cell2] # slot[last.cell])
    /\ [][(/\ last.op = "clone"
           /\ last'.op = "eq"
           /\ {last'.cell, last'.cell2} = {last.cell, last.cell2})
          => last'.flag]_vars
    /\ [][(/\ last.op = "clone"
           /\ last'.op = "replace"
           /\ last'.cell \in {last.cell, last.cell2})
          => \A e \in {last.cell, last.cell2} \ {last'.cell} :
                val'[slot'[e]] = last.pre]_vars

C11_Witness ==
    /\ last.op = "clone"
    /\ last.pre # DefaultT
    /\ val[slot[last.cell2]] = last.pre
    /\ val[slot[last.cell]] = last.pre

\* C12: formatting a cell with {:?} gives "MoveCell(" + Debug(v) + ")" for the
\* value v the cell held before the call, not for the placeholder in the slot
\* during the formatting; formatting a guard gives "movecell::Borrow(" +
\* Debug(w) + ")" for the value w the guard wraps.
C12_DebugDelegates ==
    /\ last.op = "fmt" =>
            /\ last.out = "MoveCell(" \o T_fmt(last.pre) \o ")"
            /\ last.pre = DefaultT => last.out = "MoveCell(None)"
            /\ last.pre # DefaultT => last.out # "MoveCell(None)"
    /\ last.op = "guard_fmt" =>
            /\ last.out = "movecell::Borrow(" \o T_fmt(last.pre) \o ")"
            /\ last.pre = DefaultT => last.out = "movecell::Borrow(None)"
            /\ last.pre # DefaultT => last.out # "movecell::Borrow(None)"

C12_Witness ==
    /\ last.op = "fmt"
    /\ last.pre = 1
    /\ last.out = "MoveCell(Some(1))"

\* The reference model: one plain variable per cell (Absent: no such cell).
Absent == 0 - 1

\* The variable of each cell as the library represents it: the value in the
\* guard while one is live, the value in the slot otherwise.
RefState ==
    [c \in Cells |->
        IF cst[c] = "none" THEN Absent
        ELSE IF LiveGuards(c) # {}
             THEN val[gval[CHOOSE g \in LiveGuards(c) : TRUE]]
             ELSE val[slot[c]]]

RefOut(x, r, f, o) == [x |-> x, ret |-> r, flag |-> f, out |-> o]

\* What the reference model makes of the operation e on the variables x:
\* reads, writes and writes of the default, done directly.
ref_step(x, e) ==
    CASE e.op = "new" ->
            RefOut([x EXCEPT ![e.cell] = e.arg], 0, FALSE, "")
      [] e.op = "cell_into_inner" ->
            RefOut([x EXCEPT ![e.cell] = Absent], x[e.cell], FALSE, "")
      [] e.op = "replace" ->
            RefOut([x EXCEPT ![e.cell] = e.arg], x[e.cell], FALSE, "")
      [] e.op \in {"take", "guard_into_inner"} ->
            RefOut([x EXCEPT ![e.cell] = DefaultT], x[e.cell], FALSE, "")
      [] e.op \in {"borrow", "deref"} ->
            RefOut(x, x[e.cell], FALSE, "")
      [] e.op = "deref_mut" ->
            RefOut([x EXCEPT ![e.cell] = e.arg], 0, FALSE, "")
      [] e.op \in {"drop", "unwind"} ->
            RefOut(x, 0, FALSE, "")
      [] e.op = "eq" ->
            RefOut(x, 0, x[e.cell] = x[e.cell2], "")
      [] e.op = "ne" ->
            RefOut(x, 0, x[e.cell] # x[e.cell2], "")
      [] e.op = "clone" ->
            RefOut([x EXCEPT ![e.cell2] = x[e.cell]], 0, FALSE, "")
      [] e.op = "fmt" ->
            RefOut(x, 0, FALSE, "MoveCell(" \o T_fmt(x[e.cell]) \o ")")
      [] e.op = "guard_fmt" ->
            RefOut(x, 0, FALSE, "movecell::Borrow(" \o T_fmt(x[e.cell]) \o ")")
      [] OTHER -> RefOut(x, 0, FALSE, "")

\* C13: when no operation on a cell starts while a guard on that cell is live,
\* every operation returns what the reference model returns and leaves every
\* cell with the contents the reference model's variable has.
C13_RefinesVariable ==
    [][\E r \in {ref_step(RefState, last')} :
            /\ RefState' = r.x
            /\ last'.ret = r.ret
            /\ last'.flag = r.flag
            /\ last'.out = r.out]_vars

\* C14: after a == b, a != b, a.clone() or the formatting of a, every operand
\* cell holds the value it held before the call, also when a and b are the
\* same cell.
C14_OperandsRestored ==
    /\ last.op \in {"eq", "ne"} =>
            /\ val[slot[last.cell]] = last.pre
            /\ val[slot[last.cell2]] = last.pre2
    /\ last.op \in {"clone", "fmt"} =>
            val[slot[last.cell]] = last.pre

C14_Witness ==
    /\ last.op = "eq"
    /\ last.cell2 = last.cell
    /\ last.pre # DefaultT
    /\ val[slot[last.cell]] = last.pre

\* C15: right after borrow() the new guard wraps the value the cell held just
\* before the call (deref yields it) and the cell holds T's default; a read or
\* a write through deref / deref_mut changes nothing but the guard's value: the
\* slot of every cell and the value of every other guard stay as they were.
C15_BorrowWrapsValue ==
    /\ [](last.op = "borrow" =>
            /\ gst[last.guard] = "live"
            /\ gcell[last.guard] = last.cell
            /\ last.ret = last.pre
            /\ deref(Heap, GuardOf(last.guard)) = last.pre
            /\ val[slot[last.cell]] = DefaultT)
    /\ [](last.op = "deref" =>
            /\ last.ret = last.pre
            /\ deref(Heap, GuardOf(last.guard)) = last.pre)
    /\ [](last.op = "deref_mut" =>
            deref(Heap, GuardOf(last.guard)) = last.arg)
    /\ [][last'.op \in {"deref", "deref_mut"} =>
            /\ \A c \in Cells :
                  /\ cst'[c] = cst[c]
                  /\ cst[c] = "alive" => val'[slot'[c]] = val[slot[c]]
            /\ \A h \in GuardIds :
                  /\ gst'[h] = gst[h]
                  /\ gcell'[h] = gcell[h]
                  /\ (gst[h] = "live" /\ h # last'.guard)
                        => val'[gval'[h]] = val[gval[h]]]_vars

C15_Witness ==
    /\ last.op = "deref_mut"
    /\ last.arg # last.pre
    /\ last.arg # last.pre2
    /\ deref(Heap, GuardOf(last.guard)) = last.arg
    /\ val[slot[last.cell]] = last.pre2

\* C16 (as stated): when several guards were created on a cell and all of them
\* are dropped last created first, with no replace, take or guard's into_inner
\* in between, the cell holds after the last drop the value it held before the
\* first borrow.
C16_NestedDropsRestoreOriginal ==
    [][\A c \in Cells :
        (/\ nest[c].st \in {"nested", "nested_w"}
         /\ LiveGuards(c) # {}
         /\ last'.op \in {"drop", "unwind"}
         /\ \A g \in LiveGuards(c) : gst'[g] # "live")
        => val'[slot'[c]] = nest[c].orig]_vars

\* C16 (amended): the same, when moreover the value of the first guard was not
\* changed through deref_mut.
C16_NestedDropsRestoreUnwritten ==
    [][\A c \in Cells :
        (/\ nest[c].st = "nested"
         /\ LiveGuards(c) # {}
         /\ last'.op \in {"drop", "unwind"}
         /\ \A g \in LiveGuards(c) : gst'[g] # "live")
        => val'[slot'[c]] = nest[c].orig]_vars

C16_Witness ==
    /\ last.op = "drop"
    /\ last.nested
    /\ LiveGuards(last.cell) = {}
    /\ last.pre # DefaultT
    /\ val[slot[last.cell]] = last.pre

\* The places object o is held in: cell slots, live guards, the calling code.
Places(o) ==
    Cardinality({c \in Cells : slot[c] = o})
    + Cardinality({g \in GuardIds : gst[g] = "live" /\ gval[g] = o})
    + (IF o \in owned THEN 1 ELSE 0)

\* C17: every value is held in exactly one place (a cell's slot, a live guard,
\* or the calling code it was returned to) or has been destroyed, and then is
\* held nowhere; no destructor runs on a value a second time.
C17_SingleOwnership ==
    \A o \in ObjIds :
        /\ ost[o] # "twice"
        /\ ost[o] = "live" => Places(o) = 1
        /\ ost[o] = "free" => Places(o) = 0

C17_Witness ==
    /\ last.op = "guard_into_inner"
    /\ last.ret # DefaultT
    /\ Cardinality(owned) = 1
    /\ \A o \in owned : ost[o] = "live" /\ val[o] = last.ret /\ Places(o) = 1

\* The objects that hold a value in the memory h.
LiveObjs(h) == {o \in ObjIds : h.ost[o] = "live"}

\* C18: dropping a guard writes the value the guard wraps into the cell,
\* whatever the cell holds, and the value the cell held is destroyed, not
\* returned; a value stored by replace while the guard was live is gone from
\* the cell once the guard is dropped.
C18_DropOverwrites ==
    /\ [][last'.op = "drop" =>
            /\ \A c \in Cells : c = last'.cell => val'[slot'[c]] = last'.pre
            /\ owned' = {}
            /\ Cardinality(LiveObjs(Heap')) = Cardinality(LiveObjs(Cur)) - 1]_vars
    /\ [][(/\ last.op = "replace"
           /\ LiveGuards(last.cell) # {}
           /\ last'.op = "drop"
           /\ last'.cell = last.cell)
          => /\ last'.pre2 = last.arg
             /\ \A c \in Cells : c = last.cell => val'[slot'[c]] = last'.pre]_vars

C18_Witness ==
    /\ last.op = "drop"
    /\ last.pre2 # DefaultT
    /\ last.pre # last.pre2
    /\ val[slot[last.cell]] = last.pre
    /\ owned = {}

\* C19: a != b returns the negation of what a == b returns from the same cell
\* contents, also when a and b are the same cell.
C19_NeNegatesEq ==
    /\ [][last'.op = "ne" =>
            last'.flag = ~eq(Cur, last'.cell, last'.cell2).ret]_vars
    /\ [][(/\ last.op = "eq"
           /\ last'.op = "ne"
           /\ last'.cell = last.cell
           /\ last'.cell2 = last.cell2)
          => last'.flag = ~last.flag]_vars

C19_Witness ==
    /\ last.op = "ne"
    /\ last.cell2 = last.cell
    /\ last.pre # DefaultT
    /\ last.flag

====
